---- MODULE Spec2Model ----
(***************************************************************************)
(* Model of the castle-game main program (src/src/main.rs): the system     *)
(* graph handed to the specs DispatcherBuilder, and the synchronous game   *)
(* loop (delta-time update, mouse, dispatch, maintain, render, gui,        *)
(* present).  Two specifications share the state:                          *)
(*   Spec      - the whole program, one step per statement of the loop;    *)
(*               dispatcher.dispatch() is one step of the main thread.     *)
(*   SpecSched - one call of dispatcher.dispatch() seen from inside: the   *)
(*               systems start and finish on worker threads.               *)
(***************************************************************************)
EXTENDS Naturals, FiniteSets, Sequences, TLC

\* ------------------------------------------------------------------ bounds
MaxFrames == 3      \* iterations of the game loop that are explored
MaxElapsed == 2     \* largest measured frame time, in milliseconds
TerrainW == 2       \* width of the terrain mask, in cells
TerrainH == 2       \* height of the terrain mask, in cells
AnimPeriod == 3     \* length of an animation, in milliseconds
TurretDelay == 3    \* the configured cooldown of a turret, in milliseconds
MaxDurations == 2100  \* the times handed to DeltaTime::new: 0..MaxDurations steps
DurationStep == 500   \* of DurationStep microseconds

\* the worker threads of the dispatcher's thread pool
Workers == {"worker1", "worker2"}

\* ---------------------------------------------------------- f64 arithmetic
\* DeltaTime::new and to_seconds compute in f64.  A natural number is held
\* as its digits in base 2^10, least significant first and without leading
\* zeros; a non-negative f64 is [m, q]: the digits of its significand m and
\* the count q of fraction bits, its value being m / 2^q.
MantissaBits == 53     \* the significand of an f64
WorkingBits == 110     \* fraction bits carried by a quotient before rounding
LimbBits == 10
Base == 1024
MillisPerSecond == 1000
MicrosPerSecond == 1000000
NanosPerMicro == 1000
MicrosPerMilli == 1000

RECURSIVE Pow2(_)
Pow2(k) == IF k = 0 THEN 1 ELSE 2 * Pow2(k - 1)

RECURSIVE BitLen(_)
BitLen(n) == IF n = 0 THEN 0 ELSE 1 + BitLen(n \div 2)

RECURSIVE Limbs(_)
Limbs(n) == IF n = 0 THEN <<>> ELSE <<n % Base>> \o Limbs(n \div Base)

RECURSIVE NatOf(_)
NatOf(b) == IF b = <<>> THEN 0 ELSE b[1] + Base * NatOf(Tail(b))

RECURSIVE Trim(_)
Trim(b) ==
  IF b = <<>> \/ b[Len(b)] # 0 THEN b ELSE Trim(SubSeq(b, 1, Len(b) - 1))

\* the number of binary digits of b
Bits(b) == IF b = <<>> THEN 0 ELSE LimbBits * (Len(b) - 1) + BitLen(b[Len(b)])

\* b * k, for k up to 2^20
RECURSIVE MulSmallFrom(_, _, _, _)
MulSmallFrom(b, i, k, carry) ==
  IF i > Len(b) THEN Limbs(carry)
  ELSE <<(b[i] * k + carry) % Base>>
         \o MulSmallFrom(b, i + 1, k, (b[i] * k + carry) \div Base)

MulSmall(b, k) == Trim(MulSmallFrom(b, 1, k, 0))

\* the quotient of the digits i..1 of b by d (up to 2^20), the digits above
\* having left the remainder rem; and the remainder
RECURSIVE QuotFrom(_, _, _, _)
QuotFrom(b, i, d, rem) ==
  IF i = 0 THEN <<>>
  ELSE QuotFrom(b, i - 1, d, (rem * Base + b[i]) % d)
         \o <<(rem * Base + b[i]) \div d>>

RECURSIVE RemFrom(_, _, _, _)
RemFrom(b, i, d, rem) ==
  IF i = 0 THEN rem ELSE RemFrom(b, i - 1, d, (rem * Base + b[i]) % d)

DivSmall(b, d) == Trim(QuotFrom(b, Len(b), d, 0))
ModSmall(b, d) == RemFrom(b, Len(b), d, 0)

RECURSIVE AddFrom(_, _, _, _)
AddFrom(a, b, i, carry) ==
  IF i > Len(a) /\ i > Len(b) THEN Limbs(carry)
  ELSE LET v == (IF i <= Len(a) THEN a[i] ELSE 0)
                  + (IF i <= Len(b) THEN b[i] ELSE 0) + carry
       IN  <<v % Base>> \o AddFrom(a, b, i + 1, v \div Base)

AddLimbs(a, b) == Trim(AddFrom(a, b, 1, 0))

RECURSIVE LessFrom(_, _, _)
LessFrom(a, b, i) ==
  IF i = 0 THEN FALSE
  ELSE IF a[i] # b[i] THEN a[i] < b[i]
  ELSE LessFrom(a, b, i - 1)

LessLimbs(a, b) ==
  IF Len(a) # Len(b) THEN Len(a) < Len(b) ELSE LessFrom(a, b, Len(a))

\* b * 2^k
ShiftLeft(b, k) ==
  IF b = <<>> THEN <<>>
  ELSE [i \in 1..(k \div LimbBits) |-> 0] \o MulSmall(b, Pow2(k % LimbBits))

\* b / 2^k without its fraction, and whether the fraction is zero
ShiftRight(b, k) ==
  IF k \div LimbBits >= Len(b) THEN <<>>
  ELSE DivSmall(SubSeq(b, k \div LimbBits + 1, Len(b)), Pow2(k % LimbBits))

Exact(b, k) ==
  /\ \A i \in 1..Len(b) : i <= k \div LimbBits => b[i] = 0
  /\ \/ k \div LimbBits >= Len(b)
     \/ ModSmall(SubSeq(b, k \div LimbBits + 1, Len(b)), Pow2(k % LimbBits)) = 0

Odd(b) == b # <<>> /\ b[1] % 2 = 1

\* the f64 nearest to (b + sticky) / 2^q, ties to even; sticky says that
\* the exact value has a part below the last digit of b
F64Round(b, q, sticky) ==
  IF Bits(b) <= MantissaBits THEN [m |-> b, q |-> q]
  ELSE LET k  == Bits(b) - MantissaBits
           m0 == ShiftRight(b, k)
           up == /\ Odd(ShiftRight(b, k - 1))
                 /\ (sticky \/ ~Exact(b, k - 1) \/ Odd(m0))
       IN  [m |-> IF up THEN AddLimbs(m0, <<1>>) ELSE m0, q |-> q - k]

F64Zero == [m |-> <<>>, q |-> 0]

\* the f64 of the natural number n
F64OfNat(n) == [m |-> Limbs(n), q |-> 0]

\* the f64 nearest to n / (d1 * d2): a literal, or an f64 division
F64OfRatio(n, d1, d2) ==
  IF n = 0 THEN F64Zero
  ELSE LET num == ShiftLeft(Limbs(n), WorkingBits)
           q1  == DivSmall(num, d1)
       IN  F64Round(DivSmall(q1, d2), WorkingBits,
                    ModSmall(num, d1) # 0 \/ ModSmall(q1, d2) # 0)

\* the significand of x counted in units of 2^-q
Scaled(x, q) == ShiftLeft(x.m, q - x.q)

MaxQ(x, y) == IF x.q >= y.q THEN x.q ELSE y.q

F64Less(x, y) == LessLimbs(Scaled(x, MaxQ(x, y)), Scaled(y, MaxQ(x, y)))
F64Equal(x, y) == Scaled(x, MaxQ(x, y)) = Scaled(y, MaxQ(x, y))

\* x * n in f64, n a natural number up to 2^20
F64MulNat(x, n) == F64Round(MulSmall(x.m, n), x.q, FALSE)

\* x * (n1 * n2 * n3) in f64, the product of the three a natural number
F64MulNat3(x, n1, n2, n3) ==
  F64Round(MulSmall(MulSmall(MulSmall(x.m, n1), n2), n3), x.q, FALSE)

\* x + y in f64
F64Add(x, y) ==
  F64Round(AddLimbs(Scaled(x, MaxQ(x, y)), Scaled(y, MaxQ(x, y))), MaxQ(x, y), FALSE)

\* x as u64: the fraction is dropped
F64AsU64(x) == NatOf(ShiftRight(x.m, x.q))

\* the literal 1e-9
OneNano == F64OfRatio(1, MicrosPerSecond, NanosPerMicro)

\* 1.0 / 60.0
Sixtieth == F64OfRatio(1, 60, 1)

\* DeltaTime::new(time): Duration::from_millis((time * 1000.0) as u64); the
\* Duration in microseconds
DeltaTimeNew(time) == F64AsU64(F64MulNat(time, MillisPerSecond)) * MicrosPerMilli

\* to_seconds: as_secs() as f64 + subsec_nanos() as f64 * 1e-9, of a
\* Duration of micros microseconds
ToSeconds(micros) ==
  F64Add(F64OfNat(micros \div MicrosPerSecond),
         F64MulNat3(OneNano, micros % MicrosPerSecond, NanosPerMicro, 1))

\* ------------------------------------------------------- the system graph
\* the registration with "walk" left out of the dependencies of anim
RegistrationAnimAfterProjectileOnly ==
  << [name |-> "projectile",                   deps |-> {}],
     [name |-> "arrow",                        deps |-> {"projectile"}],
     [name |-> "projectile_collision",         deps |-> {"projectile"}],
     [name |-> "projectile_removal_from_mask", deps |-> {"projectile"}],
     [name |-> "terrain_collapse",             deps |-> {"projectile"}],
     [name |-> "walk",                         deps |-> {}],
     [name |-> "unit_fall",                    deps |-> {"walk"}],
     [name |-> "unit_resume_walking",          deps |-> {"walk"}],
     [name |-> "unit_collide",                 deps |-> {"walk"}],
     [name |-> "melee",                        deps |-> {"walk"}],
     [name |-> "health_bar",                   deps |-> {"walk"}],
     [name |-> "turret_unit",                  deps |-> {"walk"}],
     [name |-> "turret",                       deps |-> {"turret_unit"}],
     [name |-> "sprite",                       deps |-> {"projectile", "walk"}],
     [name |-> "anim",                         deps |-> {"projectile"}],
     [name |-> "particle",                     deps |-> {}],
     [name |-> "floating_text",                deps |-> {}] >>

\* the registration with turret added before turret_unit
RegistrationTurretFirst ==
  << [name |-> "projectile",                   deps |-> {}],
     [name |-> "arrow",                        deps |-> {"projectile"}],
     [name |-> "projectile_collision",         deps |-> {"projectile"}],
     [name |-> "projectile_removal_from_mask", deps |-> {"projectile"}],
     [name |-> "terrain_collapse",             deps |-> {"projectile"}],
     [name |-> "walk",                         deps |-> {}],
     [name |-> "unit_fall",                    deps |-> {"walk"}],
     [name |-> "unit_resume_walking",          deps |-> {"walk"}],
     [name |-> "unit_collide",                 deps |-> {"walk"}],
     [name |-> "melee",                        deps |-> {"walk"}],
     [name |-> "health_bar",                   deps |-> {"walk"}],
     [name |-> "turret",                       deps |-> {"turret_unit"}],
     [name |-> "turret_unit",                  deps |-> {"walk"}],
     [name |-> "sprite",                       deps |-> {"projectile", "walk"}],
     [name |-> "anim",                         deps |-> {"projectile", "walk"}],
     [name |-> "particle",                     deps |-> {}],
     [name |-> "floating_text",                deps |-> {}] >>

\* DispatcherBuilder::new().add(system, name, dependencies)... in source order
Registration ==
  << [name |-> "projectile",                   deps |-> {}],
     [name |-> "arrow",                        deps |-> {"projectile"}],
     [name |-> "projectile_collision",         deps |-> {"projectile"}],
     [name |-> "projectile_removal_from_mask", deps |-> {"projectile"}],
     [name |-> "terrain_collapse",             deps |-> {"projectile"}],
     [name |-> "walk",                         deps |-> {}],
     [name |-> "unit_fall",                    deps |-> {"walk"}],
     [name |-> "unit_resume_walking",          deps |-> {"walk"}],
     [name |-> "unit_collide",                 deps |-> {"walk"}],
     [name |-> "melee",                        deps |-> {"walk"}],
     [name |-> "health_bar",                   deps |-> {"walk"}],
     [name |-> "turret_unit",                  deps |-> {"walk"}],
     [name |-> "turret",                       deps |-> {"turret_unit"}],
     [name |-> "sprite",                       deps |-> {"projectile", "walk"}],
     [name |-> "anim",                         deps |-> {"projectile", "walk"}],
     [name |-> "particle",                     deps |-> {}],
     [name |-> "floating_text",                deps |-> {}] >>

NumSystems == Len(Registration)

Systems == {Registration[i].name : i \in 1..NumSystems}

\* the names added to the builder by its first n calls of add
RegisteredUpTo(n) == {Registration[i].name : i \in 1..n}

\* the declared predecessors of a system
DepsOf ==
  [s \in Systems |->
     (CHOOSE r \in {Registration[i] : i \in 1..NumSystems} : r.name = s).deps]

Deps(s) == DepsOf[s]

\* ------------------------------------------------------------ the world
Cells == (1..TerrainW) \X (1..TerrainH)
NoCell == <<0, 0>>

\* Terrain::new + draw_terrain_from_memory(level.blit): the level is solid
FullTerrain == Cells

\* entities get fresh ids; a frame creates at most a mask, a debris
\* particle and a purchased unit, and setup places one turret
Entities == 1..(1 + 3 * MaxFrames)
NoComp == [kind |-> "none", cell |-> NoCell, anim |-> 0]
Comp(k, c) == [kind |-> k, cell |-> c, anim |-> 0]

GuiEvents == {"BuyArcherButton", "BuySoldierButton", "None"}

\* the wall-clock time one frame can take
ElapsedTimes == {k * MicrosPerMilli : k \in 1..MaxElapsed}

\* the UnitState values
UnitStates == {"Walking", "Melee", "Falling"}

\* the fixed frame durations of the turret scenario, in milliseconds
FrameDurations == 1..MaxElapsed

\* a turret at the start of a run: no time has passed, nothing was fired
NewTurret == [elapsed |-> 0, timer |-> 0, shots |-> 0]
NoTurretRun == [d \in FrameDurations |-> NewTurret]

\* a time in seconds, num / den, before DeltaTime::new has been called
Timed(num, den) ==
  [stage |-> "time", num |-> num, den |-> den, time |-> F64OfRatio(num, den, 1),
   stored |-> 0, seconds |-> F64Zero]
NoDuration == Timed(0, 1)

\* no unit is followed
NoUnit == [x |-> 0, y |-> 0, state |-> "none"]
NoUnit0 == [state |-> "none", supported |-> FALSE]

VARIABLES
  pc,          \* where the main thread is
  built,       \* systems added to the DispatcherBuilder so far
  frame,       \* iterations of the game loop started so far
  sysState,    \* per system, inside a dispatch: "idle", "running", "done"
  ran,         \* per system: how many times it has executed
  alive,       \* entities that exist (what entities().join() yields)
  killed,      \* entities deleted with entities().delete, until maintain
  comp,        \* per entity: its components
  nextId,      \* the next entity id
  lazy,        \* creations / deletions queued by systems (LazyUpdate)
  terrain,     \* the Terrain resource: the set of solid cells
  deltaTime,   \* the DeltaTime resource, in microseconds
  deltaWrites, \* writes of DeltaTime in the current frame
  guiEvent,    \* what gui.update() returned in the current frame
  applied,     \* per entity: how often its TerrainMask was drawn on Terrain
  maintained,  \* calls of world.maintain() so far
  rendered,    \* executions of the render block so far
  exitSignal,  \* the window is closed or Escape is down
  dispatched,  \* the entities the last dispatch ran over
  sampleAge,   \* the wall-clock time since `time` was sampled, in microseconds
  frameAge,    \* the wall-clock time since the last DeltaTime update
  preCollapse, \* SpecCollapse: the Terrain as the last collapse step found it
  debris,      \* SpecCollapse: debris emissions of the collapse steps so far
  unit,        \* SpecUnit: a unit, its column x, its row y, its UnitState
  unit0,       \* SpecUnit: the unit's state and support when the dispatch began
  turretRun,   \* SpecTurret: per frame duration, a run of the turret scenario
  duration     \* SpecDuration: a time, the DeltaTime made of it, its to_seconds

vars == <<pc, built, frame, sysState, ran, alive, killed, comp, nextId, lazy,
          terrain, deltaTime, deltaWrites, guiEvent, applied, maintained,
          rendered, exitSignal, dispatched, sampleAge, frameAge,
          preCollapse, debris, unit, unit0, turretRun, duration>>

world == <<alive, killed, comp, nextId, lazy, terrain, applied>>

\* what the specifications of single subsystems observe; the game loop
\* leaves it alone
scenario == <<preCollapse, debris, unit, unit0, turretRun, duration>>

\* ---------------------------------------------------------------- terrain
Adjacent(c, d) ==
  \/ c[1] = d[1] /\ (c[2] = d[2] + 1 \/ d[2] = c[2] + 1)
  \/ c[2] = d[2] /\ (c[1] = d[1] + 1 \/ d[1] = c[1] + 1)

\* the flood fill stopped after its first round: only the solid cells next
\* to S are added
GrowOnce(t, S) == S \cup {c \in t \ S : \E d \in S : Adjacent(c, d)}

\* the cells of t reachable from S through adjacent solid cells
RECURSIVE Grow(_, _)
Grow(t, S) ==
  LET N == {c \in t \ S : \E d \in S : Adjacent(c, d)}
  IN  IF N = {} THEN S ELSE Grow(t, S \cup N)

\* the solid cells connected to the baseline (the bottom row)
Supported(t) == Grow(t, {c \in t : c[2] = TerrainH})

\* a collapse step that lets a single unsupported cell go per execution
CollapseOneCell(t) ==
  IF Supported(t) = t THEN t
  ELSE t \ {CHOOSE c \in t \ Supported(t) : TRUE}

\* the collapse step: unsupported cells leave the mask
Collapse(t) == Supported(t)

\* draw_mask_terrain: the mask clears the cell it is placed on
DrawMaskTerrain(t, mask) == t \ {mask.cell}

\* ------------------------------------------------- what the systems queue
CreateOp(k, c) == [op |-> "create", kind |-> k, cell |-> c, e |-> 0]
DeleteOp(e) == [op |-> "delete", kind |-> "none", cell |-> NoCell, e |-> e]

Units == {e \in alive : comp[e].kind \in {"archer", "soldier"}}

\* projectiles fly in from the left edge: in each row the first solid cell
\* is the one a projectile can hit
ImpactCells(t) ==
  {c \in t : \A d \in t : d[2] = c[2] => c[1] <= d[1]}

\* a projectile may hit the terrain (NoCell: none does)
HitChoices(s) ==
  IF s = "projectile_collision" THEN {NoCell} \cup ImpactCells(terrain) ELSE {NoCell}

\* a melee may bring a unit's health to zero (0: none dies)
VictimChoices(s) == IF s = "melee" THEN {0} \cup Units ELSE {0}

\* the entity creations and deletions system s queues in one execution
QueuedBy(s, hit, victim) ==
  CASE s = "projectile_collision" ->
         IF hit = NoCell THEN {} ELSE {CreateOp("mask", hit)}
    [] s = "terrain_collapse" ->
         IF Collapse(terrain) = terrain THEN {} ELSE {CreateOp("particle", NoCell)}
    [] s = "melee" ->
         IF victim = 0 THEN {} ELSE {DeleteOp(victim)}
    [] OTHER -> {}

\* the systems that write the Terrain resource
TerrainWritingSystems == {"terrain_collapse"}

\* the Terrain resource after system s has executed
TerrainAfter(s, t) == IF s \in TerrainWritingSystems THEN Collapse(t) ELSE t

\* --------------------------------------------------------- the unit state
\* a unit in column x stands in row y (row 0: on top of the mask); its feet
\* rest on the cell beneath it, or on the ground under the bottom row
UnitSupported(u, t) == u.y = TerrainH \/ <<u.x, u.y + 1>> \in t

\* unit_resume_walking that does not look at the terrain
UnitResumeWalkingAlways(u, t) ==
  IF u.state = "Falling" THEN [u EXCEPT !.state = "Walking"] ELSE u

\* unit_fall: a Walking unit with nothing solid beneath its feet becomes
\* Falling; a Falling unit in the air moves down
UnitFall(u, t) ==
  CASE u.state = "Walking" /\ ~UnitSupported(u, t) -> [u EXCEPT !.state = "Falling"]
    [] u.state = "Falling" /\ ~UnitSupported(u, t) -> [u EXCEPT !.y = @ + 1]
    [] OTHER -> u

\* unit_resume_walking: a Falling unit whose feet rest on solid terrain
\* becomes Walking
UnitResumeWalking(u, t) ==
  IF u.state = "Falling" /\ UnitSupported(u, t)
    THEN [u EXCEPT !.state = "Walking"]
    ELSE u

\* the unit after system s has executed
UnitAfter(s, u, t) ==
  CASE s = "unit_fall" -> UnitFall(u, t)
    [] s = "unit_resume_walking" -> UnitResumeWalking(u, t)
    [] OTHER -> u

\* -------------------------------------------------------------- the turret
\* turret, one execution with an enemy in range and a frame time of dt
\* milliseconds: the cooldown timer takes up the frame time; when the
\* cooldown has elapsed a projectile is fired and the timer is reset
TurretFire(tu, dt) ==
  IF tu.timer + dt >= TurretDelay
    THEN [elapsed |-> tu.elapsed + dt, timer |-> 0, shots |-> tu.shots + 1]
    ELSE [elapsed |-> tu.elapsed + dt, timer |-> tu.timer + dt, shots |-> tu.shots]

\* ------------------------------------------------------------- start-up
Init ==
  /\ pc = "build"
  /\ built = 0
  /\ frame = 0
  /\ sysState = [s \in Systems |-> "idle"]
  /\ ran = [s \in Systems |-> 0]
  /\ alive = {1}
  /\ killed = {}
  /\ comp = [e \in Entities |-> IF e = 1 THEN Comp("turret", NoCell) ELSE NoComp]
  /\ nextId = 2
  /\ lazy = {}
  /\ terrain = FullTerrain
  /\ deltaTime = DeltaTimeNew(Sixtieth)
  /\ deltaWrites = 0
  /\ guiEvent = "None"
  /\ applied = [e \in Entities |-> 0]
  /\ maintained = 0
  /\ rendered = 0
  /\ exitSignal = FALSE
  /\ dispatched = {}
  /\ sampleAge = 0
  /\ frameAge = 0
  /\ preCollapse = FullTerrain
  /\ debris = 0
  /\ unit = NoUnit
  /\ unit0 = NoUnit0
  /\ turretRun = NoTurretRun
  /\ duration = NoDuration

\* one .add(system, name, dependencies): a dependency that is not yet
\* registered is fatal
AddSystem ==
  /\ pc = "build"
  /\ built < NumSystems
  /\ IF Registration[built + 1].deps \subseteq RegisteredUpTo(built)
       THEN built' = built + 1 /\ pc' = pc
       ELSE built' = built /\ pc' = "fatal"
  /\ UNCHANGED <<frame, sysState, ran, deltaTime, deltaWrites, guiEvent, maintained, rendered>>
  /\ UNCHANGED <<exitSignal, dispatched, sampleAge, frameAge>>
  /\ UNCHANGED scenario
  /\ UNCHANGED world

\* .build(), the window and the gui: the game loop is entered
Build ==
  /\ pc = "build"
  /\ built = NumSystems
  /\ pc' = "loop"
  /\ UNCHANGED <<built, frame, sysState, ran, deltaTime, deltaWrites, guiEvent, maintained, rendered>>
  /\ UNCHANGED <<exitSignal, dispatched, sampleAge, frameAge>>
  /\ UNCHANGED scenario
  /\ UNCHANGED world

\* ------------------------------------------------------------ game loop
\* while window.is_open() && !window.is_key_down(Key::Escape): true
LoopContinue ==
  /\ pc = "loop"
  /\ ~exitSignal
  /\ frame < MaxFrames
  /\ pc' = "delta"
  /\ frame' = frame + 1
  /\ deltaWrites' = 0
  /\ UNCHANGED <<built, sysState, ran, deltaTime, guiEvent, maintained, rendered>>
  /\ UNCHANGED <<exitSignal, dispatched, sampleAge, frameAge>>
  /\ UNCHANGED scenario
  /\ UNCHANGED world

\* the loop condition is false
LoopExit ==
  /\ pc = "loop"
  /\ exitSignal
  /\ pc' = "exit"
  /\ UNCHANGED <<built, frame, sysState, ran, deltaTime, deltaWrites, guiEvent, maintained, rendered>>
  /\ UNCHANGED <<exitSignal, dispatched, sampleAge, frameAge>>
  /\ UNCHANGED scenario
  /\ UNCHANGED world

\* the delta-time block without time = SystemTime::now()
UpdateDeltaTimeNoResample ==
  /\ pc = "delta"
  /\ deltaTime' = sampleAge
  /\ sampleAge' = sampleAge
  /\ frameAge' = 0
  /\ deltaWrites' = deltaWrites + 1
  /\ pc' = "mouse"
  /\ UNCHANGED <<built, frame, sysState, ran, guiEvent, maintained, rendered>>
  /\ UNCHANGED <<exitSignal, dispatched>>
  /\ UNCHANGED world
  /\ UNCHANGED scenario

\* *delta = DeltaTime(time.elapsed().unwrap()); time = SystemTime::now()
UpdateDeltaTime ==
  /\ pc = "delta"
  /\ deltaTime' = sampleAge
  /\ sampleAge' = 0
  /\ frameAge' = 0
  /\ deltaWrites' = deltaWrites + 1
  /\ pc' = "mouse"
  /\ UNCHANGED <<built, frame, sysState, ran, guiEvent, maintained, rendered>>
  /\ UNCHANGED <<exitSignal, dispatched>>
  /\ UNCHANGED scenario
  /\ UNCHANGED world

\* the mouse step leaving the loop when the exit signal is up
HandleMouseChecksExit ==
  /\ pc = "mouse"
  /\ pc' = IF exitSignal THEN "exit" ELSE "dispatch"
  /\ UNCHANGED <<built, frame, sysState, ran, deltaTime, deltaWrites, guiEvent, maintained, rendered>>
  /\ UNCHANGED <<exitSignal, dispatched, sampleAge, frameAge>>
  /\ UNCHANGED world
  /\ UNCHANGED scenario

\* gui.handle_mouse(...): touches the gui only
HandleMouse ==
  /\ pc = "mouse"
  /\ pc' = "dispatch"
  /\ UNCHANGED <<built, frame, sysState, ran, deltaTime, deltaWrites, guiEvent, maintained, rendered>>
  /\ UNCHANGED <<exitSignal, dispatched, sampleAge, frameAge>>
  /\ UNCHANGED scenario
  /\ UNCHANGED world

\* the loop without world.maintain(): dispatch is followed by the render block
DispatchNoMaintain ==
  /\ pc = "dispatch"
  /\ \E hit \in HitChoices("projectile_collision"), victim \in VictimChoices("melee") :
       lazy' = lazy \cup UNION {QueuedBy(s, hit, victim) : s \in Systems}
  /\ terrain' = TerrainAfter("terrain_collapse", terrain)
  /\ ran' = [s \in Systems |-> ran[s] + 1]
  /\ dispatched' = alive
  /\ pc' = "render"
  /\ UNCHANGED <<built, frame, sysState, deltaTime, deltaWrites, guiEvent, maintained, rendered>>
  /\ UNCHANGED <<exitSignal, sampleAge, frameAge>>
  /\ UNCHANGED scenario
  /\ UNCHANGED <<alive, killed, comp, nextId, applied>>

\* dispatcher.dispatch(&mut world.res), as the main thread sees it: every
\* system has executed once when the call returns
Dispatch ==
  /\ pc = "dispatch"
  /\ \E hit \in HitChoices("projectile_collision"), victim \in VictimChoices("melee") :
       lazy' = lazy \cup UNION {QueuedBy(s, hit, victim) : s \in Systems}
  /\ terrain' = TerrainAfter("terrain_collapse", terrain)
  /\ ran' = [s \in Systems |-> ran[s] + 1]
  /\ dispatched' = alive
  /\ pc' = "maintain"
  /\ UNCHANGED <<built, frame, sysState, deltaTime, deltaWrites, guiEvent, maintained, rendered>>
  /\ UNCHANGED <<exitSignal, sampleAge, frameAge>>
  /\ UNCHANGED scenario
  /\ UNCHANGED <<alive, killed, comp, nextId, applied>>

\* the queued creations in the order in which maintain applies them
RECURSIVE SeqOf(_)
SeqOf(S) ==
  IF S = {} THEN <<>>
  ELSE LET x == CHOOSE y \in S : TRUE IN <<x>> \o SeqOf(S \ {x})

\* world.maintain() that may be called again before the render block
MaintainAgain ==
  /\ pc = "maintain"
  /\ LET creates == SeqOf({o \in lazy : o.op = "create"})
         deleted == killed \cup {o.e : o \in {q \in lazy : q.op = "delete"}}
         fresh   == nextId..(nextId + Len(creates) - 1)
     IN  /\ alive' = (alive \ deleted) \cup fresh
         /\ comp' = [e \in Entities |->
                       IF e \in fresh
                         THEN Comp(creates[e - nextId + 1].kind, creates[e - nextId + 1].cell)
                       ELSE IF e \in deleted THEN NoComp
                       ELSE comp[e]]
         /\ nextId' = nextId + Len(creates)
  /\ killed' = {}
  /\ lazy' = {}
  /\ maintained' = maintained + 1
  /\ pc' \in {"maintain", "render"}
  /\ UNCHANGED <<built, frame, sysState, ran, deltaTime, deltaWrites, guiEvent, rendered>>
  /\ UNCHANGED <<exitSignal, dispatched, sampleAge, frameAge>>
  /\ UNCHANGED scenario
  /\ UNCHANGED <<terrain, applied>>

\* world.maintain(): the entities deleted since the last call go, the
\* queued creations and deletions are applied, the queue is emptied
Maintain ==
  /\ pc = "maintain"
  /\ LET creates == SeqOf({o \in lazy : o.op = "create"})
         deleted == killed \cup {o.e : o \in {q \in lazy : q.op = "delete"}}
         fresh   == nextId..(nextId + Len(creates) - 1)
     IN  /\ alive' = (alive \ deleted) \cup fresh
         /\ comp' = [e \in Entities |->
                       IF e \in fresh
                         THEN Comp(creates[e - nextId + 1].kind, creates[e - nextId + 1].cell)
                       ELSE IF e \in deleted THEN NoComp
                       ELSE comp[e]]
         /\ nextId' = nextId + Len(creates)
  /\ killed' = {}
  /\ lazy' = {}
  /\ maintained' = maintained + 1
  /\ pc' = "render"
  /\ UNCHANGED <<built, frame, sysState, ran, deltaTime, deltaWrites, guiEvent, rendered>>
  /\ UNCHANGED <<exitSignal, dispatched, sampleAge, frameAge>>
  /\ UNCHANGED scenario
  /\ UNCHANGED <<terrain, applied>>

\* entities whose TerrainMask the render block finds
MaskEntities == {e \in alive : comp[e].kind = "mask"}

\* render.update_anim(anim, delta): the animation advances by the frame time
UpdateAnim(anim, delta) == (anim + delta \div MicrosPerMilli) % AnimPeriod

\* the Terrain after the masks of the entities in M have been drawn on it
RECURSIVE DrawMasks(_, _)
DrawMasks(t, M) ==
  IF M = {} THEN t
  ELSE LET e == CHOOSE x \in M : TRUE
       IN  DrawMasks(DrawMaskTerrain(t, comp[e]), M \ {e})

\* the render block without entities().delete(entity) after a mask is drawn
RenderKeepsMasks ==
  /\ pc = "render"
  /\ comp' = [e \in Entities |->
                IF e \in alive /\ comp[e].kind = "archer"
                  THEN [comp[e] EXCEPT !.anim = UpdateAnim(@, deltaTime)]
                  ELSE comp[e]]
  /\ terrain' = DrawMasks(terrain, MaskEntities)
  /\ killed' = killed
  /\ applied' = [e \in Entities |-> IF e \in MaskEntities THEN applied[e] + 1 ELSE applied[e]]
  /\ rendered' = rendered + 1
  /\ pc' = "gui"
  /\ UNCHANGED <<built, frame, sysState, ran, deltaTime, deltaWrites, guiEvent, maintained>>
  /\ UNCHANGED <<exitSignal, dispatched, sampleAge, frameAge>>
  /\ UNCHANGED scenario
  /\ UNCHANGED <<alive, nextId, lazy>>

\* the render block: every entity is drawn; an Anim is advanced, a
\* TerrainMask is drawn on the Terrain and its entity deleted
Render ==
  /\ pc = "render"
  /\ comp' = [e \in Entities |->
                IF e \in alive /\ comp[e].kind = "archer"
                  THEN [comp[e] EXCEPT !.anim = UpdateAnim(@, deltaTime)]
                  ELSE comp[e]]
  /\ terrain' = DrawMasks(terrain, MaskEntities)
  /\ killed' = killed \cup MaskEntities
  /\ applied' = [e \in Entities |-> IF e \in MaskEntities THEN applied[e] + 1 ELSE applied[e]]
  /\ rendered' = rendered + 1
  /\ pc' = "gui"
  /\ UNCHANGED <<built, frame, sysState, ran, deltaTime, deltaWrites, guiEvent, maintained>>
  /\ UNCHANGED <<exitSignal, dispatched, sampleAge, frameAge>>
  /\ UNCHANGED scenario
  /\ UNCHANGED <<alive, nextId, lazy>>

\* the match with both purchase arms calling buy_archer
BoughtKindBothArcher(ev) ==
  CASE ev = "BuyArcherButton" -> "archer"
    [] ev = "BuySoldierButton" -> "archer"
    [] OTHER -> "none"

\* buy_archer / buy_soldier: the unit the purchase of event ev creates
BoughtKind(ev) ==
  CASE ev = "BuyArcherButton" -> "archer"
    [] ev = "BuySoldierButton" -> "soldier"
    [] OTHER -> "none"

\* buy_archer(&mut world) / buy_soldier(&mut world): one unit entity is
\* created at once
BuyUnit(kind) ==
  /\ alive' = alive \cup {nextId}
  /\ comp' = [comp EXCEPT ![nextId] = Comp(kind, NoCell)]
  /\ nextId' = nextId + 1

\* the purchase followed by the render block once more
GuiUpdateThenRender ==
  /\ pc = "gui"
  /\ \E ev \in GuiEvents :
       /\ guiEvent' = ev
       /\ IF BoughtKind(ev) # "none"
            THEN BuyUnit(BoughtKind(ev))
            ELSE UNCHANGED <<alive, comp, nextId>>
  /\ pc' = "render"
  /\ UNCHANGED <<built, frame, sysState, ran, deltaTime, deltaWrites, maintained, rendered>>
  /\ UNCHANGED <<exitSignal, dispatched, sampleAge, frameAge>>
  /\ UNCHANGED <<killed, lazy, terrain, applied>>
  /\ UNCHANGED scenario

\* match gui.update() { BuyArcherButton => buy_archer, BuySoldierButton =>
\* buy_soldier, _ => () }
GuiUpdate ==
  /\ pc = "gui"
  /\ \E ev \in GuiEvents :
       /\ guiEvent' = ev
       /\ IF BoughtKind(ev) # "none"
            THEN BuyUnit(BoughtKind(ev))
            ELSE UNCHANGED <<alive, comp, nextId>>
  /\ pc' = "present"
  /\ UNCHANGED <<built, frame, sysState, ran, deltaTime, deltaWrites, maintained, rendered>>
  /\ UNCHANGED <<exitSignal, dispatched, sampleAge, frameAge>>
  /\ UNCHANGED scenario
  /\ UNCHANGED <<killed, lazy, terrain, applied>>

\* the end of the frame measuring the frame time once more
PresentWritesDelta ==
  /\ pc = "present"
  /\ pc' = "loop"
  /\ guiEvent' = "None"
  /\ \E elapsed \in ElapsedTimes :
       /\ deltaTime' = elapsed
       /\ sampleAge' = sampleAge + elapsed
       /\ frameAge' = frameAge + elapsed
  /\ deltaWrites' = deltaWrites + 1
  /\ UNCHANGED <<built, frame, sysState, ran, maintained, rendered>>
  /\ UNCHANGED <<exitSignal, dispatched>>
  /\ UNCHANGED scenario
  /\ UNCHANGED world

\* gui.render, the floating texts, window.update_with_buffer, sleep: the
\* frame has taken its time when the sleep returns
Present ==
  /\ pc = "present"
  /\ pc' = "loop"
  /\ guiEvent' = "None"
  /\ \E elapsed \in ElapsedTimes :
       /\ sampleAge' = sampleAge + elapsed
       /\ frameAge' = frameAge + elapsed
  /\ UNCHANGED <<built, frame, sysState, ran, deltaTime, deltaWrites, maintained, rendered>>
  /\ UNCHANGED <<exitSignal, dispatched>>
  /\ UNCHANGED scenario
  /\ UNCHANGED world

\* the window is closed, or Escape goes down or up, at any moment of the
\* game loop
WindowInput ==
  /\ pc \notin {"build", "fatal", "exit"}
  /\ exitSignal' = ~exitSignal
  /\ UNCHANGED <<pc, built, frame, sysState, ran, deltaTime, deltaWrites, guiEvent, maintained, rendered>>
  /\ UNCHANGED <<dispatched, sampleAge, frameAge>>
  /\ UNCHANGED world
  /\ UNCHANGED scenario

Next ==
  \/ WindowInput
  \/ AddSystem
  \/ Build
  \/ LoopContinue
  \/ LoopExit
  \/ UpdateDeltaTime
  \/ HandleMouse
  \/ Dispatch
  \/ Maintain
  \/ Render
  \/ GuiUpdate
  \/ Present

Spec == Init /\ [][Next]_vars

\* ------------------------------------------- inside dispatcher.dispatch()
\* dispatch is called: no system of this dispatch has started
BeginDispatch ==
  /\ pc = "dispatch"
  /\ pc' = "dispatching"
  /\ sysState' = [s \in Systems |-> "idle"]
  /\ dispatched' = alive
  /\ UNCHANGED <<built, frame, ran, deltaTime, deltaWrites, guiEvent, maintained, rendered>>
  /\ UNCHANGED <<exitSignal, sampleAge, frameAge>>
  /\ UNCHANGED scenario
  /\ UNCHANGED world

\* a worker thread takes system s, whose dependencies have all finished
StartSystem(s) ==
  /\ pc = "dispatching"
  /\ sysState[s] = "idle"
  /\ \A d \in Deps(s) : sysState[d] = "done"
  /\ Cardinality({r \in Systems : sysState[r] = "running"}) < Cardinality(Workers)
  /\ sysState' = [sysState EXCEPT ![s] = "running"]
  /\ UNCHANGED <<pc, built, frame, ran, deltaTime, deltaWrites, guiEvent, maintained, rendered>>
  /\ UNCHANGED <<exitSignal, dispatched, sampleAge, frameAge>>
  /\ UNCHANGED scenario
  /\ UNCHANGED world

\* system s finishes: what it queued and what it wrote are in the world
FinishSystem(s) ==
  /\ sysState[s] = "running"
  /\ sysState' = [sysState EXCEPT ![s] = "done"]
  /\ ran' = [ran EXCEPT ![s] = @ + 1]
  /\ \E hit \in HitChoices(s), victim \in VictimChoices(s) :
       lazy' = lazy \cup QueuedBy(s, hit, victim)
  /\ terrain' = TerrainAfter(s, terrain)
  /\ UNCHANGED <<pc, built, frame, deltaTime, deltaWrites, guiEvent, maintained, rendered>>
  /\ UNCHANGED <<exitSignal, dispatched, sampleAge, frameAge>>
  /\ UNCHANGED scenario
  /\ UNCHANGED <<alive, killed, comp, nextId, applied>>

\* dispatch that returns as soon as every system has been started
EndDispatchEarly ==
  /\ pc = "dispatching"
  /\ \A s \in Systems : sysState[s] # "idle"
  /\ pc' = "maintain"
  /\ UNCHANGED <<built, frame, sysState, ran, deltaTime, deltaWrites, guiEvent, maintained, rendered>>
  /\ UNCHANGED <<exitSignal, dispatched, sampleAge, frameAge>>
  /\ UNCHANGED scenario
  /\ UNCHANGED world

\* dispatch returns when every system has finished
EndDispatch ==
  /\ pc = "dispatching"
  /\ \A s \in Systems : sysState[s] = "done"
  /\ pc' = "maintain"
  /\ sysState' = [s \in Systems |-> "idle"]
  /\ UNCHANGED <<built, frame, ran, deltaTime, deltaWrites, guiEvent, maintained, rendered>>
  /\ UNCHANGED <<exitSignal, dispatched, sampleAge, frameAge>>
  /\ UNCHANGED scenario
  /\ UNCHANGED world

\* the program at the dispatch of its third frame: a projectile hit the
\* terrain in each of the first two frames, an archer was bought in the first
InitSched ==
  /\ pc = "dispatch"
  /\ built = NumSystems
  /\ frame = 3
  /\ sysState = [s \in Systems |-> "idle"]
  /\ ran = [s \in Systems |-> 2]
  /\ alive = {1, 3, 4}
  /\ killed = {4}
  /\ comp = [e \in Entities |->
               CASE e = 1 -> Comp("turret", NoCell)
                 [] e = 3 -> [Comp("archer", NoCell) EXCEPT !.anim = UpdateAnim(0, MicrosPerMilli)]
                 [] e = 4 -> Comp("mask", <<2, TerrainH>>)
                 [] OTHER -> NoComp]
  /\ nextId = 5
  /\ lazy = {}
  /\ terrain = FullTerrain \ {<<1, TerrainH>>, <<2, TerrainH>>}
  /\ deltaTime = MicrosPerMilli
  /\ deltaWrites = 1
  /\ guiEvent = "None"
  /\ applied = [e \in Entities |-> IF e \in {2, 4} THEN 1 ELSE 0]
  /\ maintained = 2
  /\ rendered = 2
  /\ exitSignal = FALSE
  /\ dispatched = {1, 2, 3}
  /\ sampleAge = 0
  /\ frameAge = 0
  /\ preCollapse = FullTerrain
  /\ debris = 0
  /\ unit = NoUnit
  /\ unit0 = NoUnit0
  /\ turretRun = NoTurretRun
  /\ duration = NoDuration

NextSched ==
  \/ BeginDispatch
  \/ \E s \in Systems : StartSystem(s)
  \/ \E s \in Systems : FinishSystem(s)
  \/ EndDispatch
  \/ Maintain
  \/ Render

SpecSched == InitSched /\ [][NextSched]_vars

\* the start of SpecSched is a state of the program
SchedStartReached ==
  /\ pc = "dispatch" /\ frame = 3 /\ alive = {1, 3, 4} /\ killed = {4}
  /\ comp[3] = [Comp("archer", NoCell) EXCEPT !.anim = UpdateAnim(0, MicrosPerMilli)]
  /\ comp[4] = Comp("mask", <<2, TerrainH>>)
  /\ nextId = 5 /\ lazy = {} /\ deltaTime = MicrosPerMilli
  /\ terrain = FullTerrain \ {<<1, TerrainH>>, <<2, TerrainH>>}
  /\ applied = [e \in Entities |-> IF e \in {2, 4} THEN 1 ELSE 0]
  /\ maintained = 2 /\ rendered = 2 /\ deltaWrites = 1 /\ guiEvent = "None"
  /\ ~exitSignal /\ dispatched = {1, 2, 3} /\ sampleAge = 0 /\ frameAge = 0
  /\ ran = [s \in Systems |-> 2]

NotSchedStart == ~SchedStartReached

\* ------------------------------------------- the collapse step on its own
\* TerrainCollapseSystem and the carving of masks on every terrain mask:
\* the start is any mask, "carved" says a carve may have left cells
\* unsupported, "settled" that a collapse step has run since the last carve
InitCollapse ==
  /\ pc = "carved"
  /\ built = NumSystems
  /\ frame = 0
  /\ sysState = [s \in Systems |-> "idle"]
  /\ ran = [s \in Systems |-> 0]
  /\ alive = {1}
  /\ killed = {}
  /\ comp = [e \in Entities |-> IF e = 1 THEN Comp("turret", NoCell) ELSE NoComp]
  /\ nextId = 2
  /\ lazy = {}
  /\ terrain \in SUBSET Cells
  /\ deltaTime = DeltaTimeNew(Sixtieth)
  /\ deltaWrites = 0
  /\ guiEvent = "None"
  /\ applied = [e \in Entities |-> 0]
  /\ maintained = 0
  /\ rendered = 0
  /\ exitSignal = FALSE
  /\ dispatched = {}
  /\ sampleAge = 0
  /\ frameAge = 0
  /\ preCollapse = terrain
  /\ debris = 0
  /\ unit = NoUnit
  /\ unit0 = NoUnit0
  /\ turretRun = NoTurretRun
  /\ duration = NoDuration

\* one execution of terrain_collapse
RunCollapse ==
  /\ pc \in {"carved", "settled"}
  /\ ran["terrain_collapse"] < 2 * MaxFrames
  /\ preCollapse' = terrain
  /\ terrain' = TerrainAfter("terrain_collapse", terrain)
  /\ lazy' = QueuedBy("terrain_collapse", NoCell, 0)
  /\ debris' = debris + Cardinality(QueuedBy("terrain_collapse", NoCell, 0))
  /\ ran' = [ran EXCEPT !["terrain_collapse"] = @ + 1]
  /\ pc' = "settled"
  /\ UNCHANGED <<built, frame, sysState, deltaTime, deltaWrites, guiEvent, maintained, rendered>>
  /\ UNCHANGED <<exitSignal, dispatched, sampleAge, frameAge>>
  /\ UNCHANGED <<alive, killed, comp, nextId, applied>>
  /\ UNCHANGED <<unit, unit0, turretRun, duration>>

\* draw_mask_terrain of a mask placed on the solid cell c
CarveCell(c) ==
  /\ pc = "settled"
  /\ c \in terrain
  /\ terrain' = DrawMaskTerrain(terrain, Comp("mask", c))
  /\ lazy' = {}
  /\ pc' = "carved"
  /\ UNCHANGED <<built, frame, sysState, ran, deltaTime, deltaWrites, guiEvent, maintained, rendered>>
  /\ UNCHANGED <<exitSignal, dispatched, sampleAge, frameAge>>
  /\ UNCHANGED <<alive, killed, comp, nextId, applied>>
  /\ UNCHANGED scenario

NextCollapse ==
  \/ RunCollapse
  \/ \E c \in Cells : CarveCell(c)

SpecCollapse == InitCollapse /\ [][NextCollapse]_vars

\* ------------------------------------- a unit on terrain that is carved
\* the systems that decide the unit's state, and the ones that change the
\* Terrain under it
UnitFrameSystems ==
  {"projectile", "terrain_collapse", "walk", "unit_fall", "unit_resume_walking"}

\* the places where a unit can stand on the mask t
Standing(t) ==
  {u \in [x : 1..TerrainW, y : 0..TerrainH, state : {"Walking"}] :
     <<u.x, u.y>> \notin t /\ UnitSupported(u, t)}

\* a Walking unit stands at its destination on a settled mask; the
\* dispatch of a frame is about to begin
InitUnit ==
  /\ pc = "dispatch"
  /\ built = NumSystems
  /\ frame = 1
  /\ sysState = [s \in Systems |-> "idle"]
  /\ ran = [s \in Systems |-> 0]
  /\ alive = {1, 2}
  /\ killed = {}
  /\ comp = [e \in Entities |->
               CASE e = 1 -> Comp("turret", NoCell)
                 [] e = 2 -> Comp("soldier", NoCell)
                 [] OTHER -> NoComp]
  /\ nextId = 3
  /\ lazy = {}
  /\ terrain \in {t \in SUBSET Cells : Collapse(t) = t}
  /\ deltaTime = MicrosPerMilli
  /\ deltaWrites = 1
  /\ guiEvent = "None"
  /\ applied = [e \in Entities |-> 0]
  /\ maintained = 0
  /\ rendered = 0
  /\ exitSignal = FALSE
  /\ dispatched = {}
  /\ sampleAge = 0
  /\ frameAge = 0
  /\ preCollapse = terrain
  /\ debris = 0
  /\ unit \in Standing(terrain)
  /\ unit0 = NoUnit0
  /\ turretRun = NoTurretRun
  /\ duration = NoDuration

\* dispatch is called: the unit's state and support are noted
BeginUnitDispatch ==
  /\ pc = "dispatch"
  /\ pc' = "dispatching"
  /\ sysState' = [s \in Systems |-> "idle"]
  /\ unit0' = [state |-> unit.state, supported |-> UnitSupported(unit, terrain)]
  /\ UNCHANGED <<built, frame, ran, deltaTime, deltaWrites, guiEvent, maintained, rendered>>
  /\ UNCHANGED <<exitSignal, dispatched, sampleAge, frameAge>>
  /\ UNCHANGED world
  /\ UNCHANGED <<preCollapse, debris, unit, turretRun, duration>>

\* system s executes, its dependencies having finished
RunUnitSystem(s) ==
  /\ pc = "dispatching"
  /\ s \in UnitFrameSystems
  /\ sysState[s] = "idle"
  /\ \A d \in Deps(s) : sysState[d] = "done"
  /\ sysState' = [sysState EXCEPT ![s] = "done"]
  /\ ran' = [ran EXCEPT ![s] = @ + 1]
  /\ unit' = UnitAfter(s, unit, terrain)
  /\ terrain' = TerrainAfter(s, terrain)
  /\ lazy' = lazy \cup QueuedBy(s, NoCell, 0)
  /\ UNCHANGED <<pc, built, frame, deltaTime, deltaWrites, guiEvent, maintained, rendered>>
  /\ UNCHANGED <<exitSignal, dispatched, sampleAge, frameAge>>
  /\ UNCHANGED <<alive, killed, comp, nextId, applied>>
  /\ UNCHANGED <<preCollapse, debris, unit0, turretRun, duration>>

\* dispatch returns
EndUnitDispatch ==
  /\ pc = "dispatching"
  /\ \A s \in UnitFrameSystems : sysState[s] = "done"
  /\ pc' = "render"
  /\ UNCHANGED <<built, frame, sysState, ran, deltaTime, deltaWrites, guiEvent, maintained, rendered>>
  /\ UNCHANGED <<exitSignal, dispatched, sampleAge, frameAge>>
  /\ UNCHANGED world
  /\ UNCHANGED scenario

\* the rest of the frame: world.maintain() empties the queue, the render
\* block draws the mask of a projectile impact, if there was one, and the
\* next frame begins
CarveAndLoop ==
  /\ pc = "render"
  /\ frame < 2 * MaxFrames
  /\ \E c \in {NoCell} \cup ImpactCells(terrain) :
       terrain' = DrawMaskTerrain(terrain, Comp("mask", c))
  /\ lazy' = {}
  /\ frame' = frame + 1
  /\ pc' = "dispatch"
  /\ UNCHANGED <<built, sysState, ran, deltaTime, deltaWrites, guiEvent, maintained, rendered>>
  /\ UNCHANGED <<exitSignal, dispatched, sampleAge, frameAge>>
  /\ UNCHANGED <<alive, killed, comp, nextId, applied>>
  /\ UNCHANGED scenario

NextUnit ==
  \/ BeginUnitDispatch
  \/ \E s \in Systems : RunUnitSystem(s)
  \/ EndUnitDispatch
  \/ CarveAndLoop

SpecUnit == InitUnit /\ [][NextUnit]_vars

\* --------------------------- the turret scenario at fixed frame durations
\* the same scenario (a turret, an enemy that stays in range) is run once
\* per frame duration, for the same total time
TurretHorizon == MaxFrames * MaxElapsed * TurretDelay

InitTurret ==
  /\ pc = "dispatch"
  /\ built = NumSystems
  /\ frame = 0
  /\ sysState = [s \in Systems |-> "idle"]
  /\ ran = [s \in Systems |-> 0]
  /\ alive = {1, 2}
  /\ killed = {}
  /\ comp = [e \in Entities |->
               CASE e = 1 -> Comp("turret", NoCell)
                 [] e = 2 -> Comp("soldier", NoCell)
                 [] OTHER -> NoComp]
  /\ nextId = 3
  /\ lazy = {}
  /\ terrain = FullTerrain
  /\ deltaTime = DeltaTimeNew(Sixtieth)
  /\ deltaWrites = 0
  /\ guiEvent = "None"
  /\ applied = [e \in Entities |-> 0]
  /\ maintained = 0
  /\ rendered = 0
  /\ exitSignal = FALSE
  /\ dispatched = {}
  /\ sampleAge = 0
  /\ frameAge = 0
  /\ preCollapse = FullTerrain
  /\ debris = 0
  /\ unit = NoUnit
  /\ unit0 = NoUnit0
  /\ turretRun = NoTurretRun
  /\ duration = NoDuration

\* one frame of the run whose frames last d milliseconds: DeltaTime is d,
\* the turret system executes
TurretFrame(d) ==
  /\ pc = "dispatch"
  /\ turretRun[d].elapsed + d <= TurretHorizon
  /\ turretRun' = [turretRun EXCEPT ![d] = TurretFire(@, d)]
  /\ deltaTime' = d * MicrosPerMilli
  /\ ran' = [ran EXCEPT !["turret"] = @ + 1]
  /\ UNCHANGED <<pc, built, frame, sysState, deltaWrites, guiEvent, maintained, rendered>>
  /\ UNCHANGED <<exitSignal, dispatched, sampleAge, frameAge>>
  /\ UNCHANGED world
  /\ UNCHANGED <<preCollapse, debris, unit, unit0, duration>>

NextTurret == \E d \in FrameDurations : TurretFrame(d)

SpecTurret == InitTurret /\ [][NextTurret]_vars

\* ------------------------------------------- DeltaTime::new, to_seconds
\* the times of the grid, in microseconds
DurationGrid == {k * DurationStep : k \in 0..MaxDurations}

\* the time is any f64 of the grid, or 1.0 / 60.0
InitDuration ==
  /\ pc = "build"
  /\ built = 0
  /\ frame = 0
  /\ sysState = [s \in Systems |-> "idle"]
  /\ ran = [s \in Systems |-> 0]
  /\ alive = {1}
  /\ killed = {}
  /\ comp = [e \in Entities |-> IF e = 1 THEN Comp("turret", NoCell) ELSE NoComp]
  /\ nextId = 2
  /\ lazy = {}
  /\ terrain = FullTerrain
  /\ deltaTime = 0
  /\ deltaWrites = 0
  /\ guiEvent = "None"
  /\ applied = [e \in Entities |-> 0]
  /\ maintained = 0
  /\ rendered = 0
  /\ exitSignal = FALSE
  /\ dispatched = {}
  /\ sampleAge = 0
  /\ frameAge = 0
  /\ preCollapse = FullTerrain
  /\ debris = 0
  /\ unit = NoUnit
  /\ unit0 = NoUnit0
  /\ turretRun = NoTurretRun
  /\ duration \in {Timed(u, MicrosPerSecond) : u \in DurationGrid} \cup {Timed(1, 60)}

\* world.add_resource(DeltaTime::new(time))
NewDeltaTime ==
  /\ duration.stage = "time"
  /\ duration' = [duration EXCEPT !.stage = "stored", !.stored = DeltaTimeNew(duration.time)]
  /\ deltaTime' = DeltaTimeNew(duration.time)
  /\ UNCHANGED <<pc, built, frame, sysState, ran, deltaWrites, guiEvent, maintained, rendered>>
  /\ UNCHANGED <<exitSignal, dispatched, sampleAge, frameAge>>
  /\ UNCHANGED world
  /\ UNCHANGED <<preCollapse, debris, unit, unit0, turretRun>>

\* a system reads the resource: dt.to_seconds()
ReadSeconds ==
  /\ duration.stage = "stored"
  /\ duration' = [duration EXCEPT !.stage = "read", !.seconds = ToSeconds(deltaTime)]
  /\ UNCHANGED <<pc, built, frame, sysState, ran, deltaTime, deltaWrites, guiEvent, maintained, rendered>>
  /\ UNCHANGED <<exitSignal, dispatched, sampleAge, frameAge>>
  /\ UNCHANGED world
  /\ UNCHANGED <<preCollapse, debris, unit, unit0, turretRun>>

NextDuration ==
  \/ NewDeltaTime
  \/ ReadSeconds

SpecDuration == InitDuration /\ [][NextDuration]_vars

\* ================================================================ claims
Started(s) == sysState[s] \in {"running", "done"}

\* the orderings the dispatcher graph is to enforce: <<system, predecessor>>
MustFollow ==
  { <<"arrow", "projectile">>, <<"projectile_collision", "projectile">>,
    <<"projectile_removal_from_mask", "projectile">>,
    <<"terrain_collapse", "projectile">>,
    <<"unit_fall", "walk">>, <<"unit_resume_walking", "walk">>,
    <<"unit_collide", "walk">>, <<"melee", "walk">>, <<"health_bar", "walk">>,
    <<"turret_unit", "walk">>, <<"turret", "turret_unit">>, <<"turret", "walk">>,
    <<"sprite", "projectile">>, <<"sprite", "walk">>,
    <<"anim", "projectile">>, <<"anim", "walk">> }

\* C1: in every dispatch each of the 17 registered systems executes exactly
\* once, and no system has begun unless every one of its declared
\* predecessors has completed in that dispatch (turret after turret_unit
\* after walk; sprite and anim after both projectile and walk), whatever the
\* interleaving of the unrelated systems
C1_DispatchOrder ==
  /\ Cardinality(Systems) = 17
  /\ \A s \in Systems :
       /\ Started(s) => \A d \in Deps(s) : sysState[d] = "done"
       /\ ran[s] = (frame - 1) +
                   (IF sysState[s] = "done" \/ pc \in {"maintain", "render", "gui"}
                      THEN 1 ELSE 0)
  /\ \A p \in MustFollow : Started(p[1]) => sysState[p[2]] = "done"

\* two systems without a dependency path between them run at the same time,
\* each after its predecessors
C1_Witness ==
  /\ pc = "dispatching"
  /\ sysState["turret"] = "running"
  /\ sysState["anim"] = "running"
  /\ sysState["terrain_collapse"] = "done"

\* the dependencies a system reaches through its declared predecessors
RECURSIVE Ancestors(_)
Ancestors(s) == Deps(s) \cup UNION {Ancestors(d) : d \in Deps(s)}

\* C9: the configured graph is well formed, so construction never fails and
\* no dispatch meets a misconfiguration: every declared predecessor is a
\* system registered earlier in the builder, and the relation is acyclic
C9_GraphWellFormed ==
  /\ pc # "fatal"
  /\ \A i \in 1..built : Registration[i].deps \subseteq RegisteredUpTo(i - 1)
  /\ pc # "build" =>
       /\ built = NumSystems
       /\ \A s \in Systems : Deps(s) \subseteq Systems /\ s \notin Ancestors(s)

\* the builder has accepted all the systems and a dispatch is about to run
C9_Witness == pc = "dispatch" /\ built = NumSystems /\ frame = 1

\* the main thread is before (or inside) the dispatch of the current frame
BeforeMaintain == pc \in {"delta", "mouse", "dispatch", "dispatching", "maintain"}

\* C2: what the systems queue during a dispatch is applied only by the
\* maintenance step, which runs once per frame and only after every system
\* of the frame has completed; while the dispatch runs, the set of live
\* entities does not change
C2_MaintainBarrier ==
  /\ [](maintained = IF BeforeMaintain THEN frame - 1 ELSE frame)
  /\ [][ (alive' # alive \/ lazy \ lazy' # {}) =>
           /\ pc = "maintain" /\ pc' = "render"
           /\ \A s \in Systems : ran[s] = frame /\ sysState[s] # "running" ]_vars

\* a maintenance step has applied a queued creation and a queued deletion
C2_Witness ==
  /\ pc = "render"
  /\ maintained = frame
  /\ 3 \notin alive
  /\ 5 \in alive /\ comp[5].kind = "mask"

\* the operations that write the Terrain resource right now
TerrainWriters ==
  {s \in TerrainWritingSystems : sysState[s] = "running"}
    \cup (IF pc = "render" THEN {"render"} ELSE {})

\* C4: the Terrain resource is never written by two operations at once: no
\* two terrain-writing systems run concurrently, and the render block, which
\* writes the Terrain, never overlaps a dispatch
C4_ExclusiveTerrainWrite ==
  /\ Cardinality(TerrainWriters) <= 1
  /\ pc \in {"maintain", "render", "gui"} => \A s \in Systems : sysState[s] # "running"

\* the terrain-writing system runs while another system runs beside it
C4_Witness ==
  /\ sysState["terrain_collapse"] = "running"
  /\ sysState["projectile_collision"] = "running"

\* C3: in every frame, every application of a TerrainMask carve to the
\* Terrain precedes that frame's execution of terrain_collapse
C3_CarveBeforeCollapse ==
  [][applied' # applied => ran["terrain_collapse"] < frame]_vars

\* C5: every TerrainMask is applied to the Terrain at most once over the
\* whole run: the maintenance step that follows its application removes the
\* entity before the next render block, so no entity a render block finds
\* has had its mask applied
C5_MaskAppliedOnce ==
  /\ \A e \in Entities : applied[e] <= 1
  /\ pc = "render" => killed = {} /\ \A e \in alive : applied[e] = 0

\* a mask was applied in an earlier frame, its entity is gone, and the
\* render block is about to apply the mask of another entity
C5_Witness ==
  /\ pc = "render"
  /\ MaskEntities # {}
  /\ \E e \in Entities : applied[e] = 1 /\ e \notin alive

\* the order of the steps of the game loop
FrameOrder ==
  { <<"build", "loop">>, <<"loop", "delta">>, <<"loop", "exit">>,
    <<"delta", "mouse">>, <<"mouse", "dispatch">>, <<"dispatch", "maintain">>,
    <<"maintain", "render">>, <<"render", "gui">>, <<"gui", "present">>,
    <<"present", "loop">> }

\* C6: frames never overlap: the steps of an iteration occur in the order
\* DeltaTime update, dispatch, maintenance, render, gui event handling, and
\* when the dispatch of frame N+1 begins the maintenance and the render
\* block of frame N are complete
C6_FramesInOrder ==
  /\ [](pc = "dispatch" =>
          /\ maintained = frame - 1 /\ rendered = frame - 1
          /\ \A s \in Systems : ran[s] = frame - 1)
  /\ [](pc = "gui" => maintained = frame /\ rendered = frame)
  /\ [][pc' # pc => <<pc, pc'>> \in FrameOrder]_vars

\* the dispatch of the second frame is about to begin
C6_Witness == pc = "dispatch" /\ frame = 2 /\ maintained = 1 /\ rendered = 1

\* the steps of a frame that follow the DeltaTime update
AfterDelta == {"mouse", "dispatch", "maintain", "render", "gui", "present"}

\* C7: DeltaTime is written exactly once per frame, before the frame's
\* dispatch, and keeps its value through dispatch, maintenance and render
\* until the update of the next frame
C7_DeltaWrittenOnce ==
  /\ [](/\ pc \in AfterDelta => deltaWrites = 1
        /\ pc = "delta" => deltaWrites = 0)
  /\ [][deltaTime' # deltaTime => pc = "delta" /\ pc' = "mouse"]_vars

\* the render block of the second frame reads the value written in that frame
C7_Witness ==
  /\ pc = "render" /\ frame = 2 /\ deltaWrites = 1
  /\ deltaTime = MaxElapsed * MicrosPerMilli

\* C8: the render block never mutates simulation state: the Terrain, the
\* live entities, the pending deletions and every component value are the
\* same after the block as before it
C8_RenderReadOnly ==
  [][pc = "render" =>
       terrain' = terrain /\ alive' = alive /\ killed' = killed /\ comp' = comp]_vars

\* C10: each purchase event produces exactly one unit: BuyArcherButton one
\* archer, BuySoldierButton one soldier, any other event no entity; at most
\* one purchase is handled per frame
C10_OneSpawnPerPurchase ==
  /\ [](Cardinality(Units) <= frame)
  /\ [][(pc = "gui" /\ pc' # pc) =>
          LET new == alive' \ alive
          IN  /\ alive \subseteq alive'
              /\ pc' = "present"
              /\ guiEvent' = "BuyArcherButton" =>
                   Cardinality(new) = 1 /\ \A e \in new : comp'[e].kind = "archer"
              /\ guiEvent' = "BuySoldierButton" =>
                   Cardinality(new) = 1 /\ \A e \in new : comp'[e].kind = "soldier"
              /\ guiEvent' \notin {"BuyArcherButton", "BuySoldierButton"} =>
                   new = {} /\ comp' = comp ]_vars

\* a soldier has just been bought, after an archer in the frame before
C10_Witness ==
  /\ pc = "present" /\ guiEvent = "BuySoldierButton" /\ frame = 2
  /\ \E e \in alive : comp[e].kind = "soldier"
  /\ \E e \in alive : comp[e].kind = "archer"

\* a collapse step runs on a mask that the collapse step before it settled
SettledRun == pc = "settled" /\ ran'["terrain_collapse"] # ran["terrain_collapse"]

\* C11: collapse is idempotent: for any terrain mask, the collapse step run
\* on a mask that a previous collapse step has settled changes no cell of
\* the mask and emits no debris particle
C11_CollapseIdempotent ==
  [][SettledRun => terrain' = terrain /\ debris' = debris /\ lazy' = {}]_vars

\* a collapse step removed cells and emitted debris, and the step after it
\* found the settled mask and left it
C11_Witness ==
  /\ pc = "settled"
  /\ ran["terrain_collapse"] = 2
  /\ debris = 1
  /\ preCollapse = terrain
  /\ terrain # {}

\* the cells of the bottom row: the terrain baseline
Baseline == {c \in Cells : c[2] = TerrainH}

\* every cell of r is joined to the baseline through adjacent cells of r: no
\* part of r off the baseline is without a neighbour in the rest of r
JoinedToBaseline(r) ==
  \A S \in SUBSET (r \ Baseline) :
    S # {} => \E c \in S, d \in r \ S : Adjacent(c, d)

\* C12: collapse is complete: for any carve that disconnects a solid region
\* from the terrain baseline (under the one fixed adjacency rule) the next
\* collapse step removes every cell of that region from the mask and emits
\* debris for it exactly once, and leaves solid the cells that are still
\* connected to the baseline
C12_CollapseComplete ==
  [][ran'["terrain_collapse"] # ran["terrain_collapse"] =>
       /\ terrain' \subseteq terrain
       /\ terrain \cap Baseline \subseteq terrain'
       /\ JoinedToBaseline(terrain')
       /\ \A c \in terrain \ terrain' : \A d \in terrain' : ~Adjacent(c, d)
       /\ debris' = debris + (IF terrain' # terrain THEN 1 ELSE 0)
       /\ lazy' = (IF terrain' # terrain THEN {CreateOp("particle", NoCell)} ELSE {})
       /\ pc = "settled" => terrain' = terrain ]_vars

\* a carve cut a region off a settled mask; the collapse step after it
\* removed the region, emitted its debris and left the rest standing
C12_Witness ==
  /\ pc = "settled"
  /\ ran["terrain_collapse"] = 2
  /\ debris = 1
  /\ lazy = {CreateOp("particle", NoCell)}
  /\ Cardinality(preCollapse \ terrain) >= 1
  /\ terrain # {}

C14_TurretCadence ==
  /\ \A d \in FrameDurations :
       turretRun[d].shots * TurretDelay <= turretRun[d].elapsed
  /\ \A d1, d2 \in FrameDurations :
       turretRun[d1].elapsed = turretRun[d2].elapsed =>
         turretRun[d1].shots = turretRun[d2].shots

\* every step of the current frame has been performed
FrameDone ==
  /\ deltaWrites = 1
  /\ maintained = frame /\ rendered = frame
  /\ \A s \in Systems : ran[s] = frame

\* C15: the loop has no cancellation: the exit signal (window closed or
\* Escape down) is examined only at the start of a frame, so every frame
\* that starts performs all of its steps (DeltaTime update, dispatch,
\* maintenance, render, gui handling), and once the exit signal has been
\* observed at a frame start no dispatch, maintenance or render occurs
C15_NoCancellation ==
  /\ []((pc \in {"loop", "exit"} /\ frame > 0) => FrameDone)
  /\ [][pc' # pc =>
          /\ <<pc, pc'>> \in FrameOrder
          /\ (pc' = "exit") = (pc = "loop" /\ exitSignal) ]_vars
  /\ [][pc = "exit" =>
          /\ pc' = "exit" /\ frame' = frame /\ ran' = ran
          /\ maintained' = maintained /\ rendered' = rendered
          /\ UNCHANGED world ]_vars

\* the loop has ended at the start of the third frame, the two frames
\* before it complete
C15_Witness ==
  /\ pc = "exit" /\ exitSignal
  /\ frame = 2 /\ FrameDone

\* C16: a unit spawned in response to a purchase event (handled after the
\* render block of frame N) is processed by the dispatch of frame N+1 before
\* it is ever rendered: no entity created by buy_archer or buy_soldier is
\* drawn in a frame whose dispatch did not include it
C16_SpawnDispatchedBeforeDrawn ==
  /\ [](pc \in {"maintain", "render"} => Units \subseteq dispatched)
  /\ [][(pc = "gui" /\ alive' # alive) =>
          /\ (alive' \ alive) \cap dispatched = {}
          /\ rendered = frame /\ rendered' = rendered
          /\ pc' = "present" ]_vars

\* the render block of the second frame is about to draw, for the first
\* time, the archer bought in the first frame
C16_Witness ==
  /\ pc = "render" /\ frame = 2 /\ rendered = 1
  /\ \E e \in Units : comp[e].kind = "archer" /\ e \in dispatched

\* C17: the DeltaTime value installed at setup is never observed by a
\* system or by the render block: it is overwritten with the measured time
\* before the first dispatch, and every value that is read is the
\* wall-clock time that passed between the clock sample of the frame before
\* and the sample of the current frame
C17_DeltaMeasured ==
  /\ [](pc \in AfterDelta => deltaWrites >= 1)
  /\ [][(pc = "delta" /\ pc' # pc) => deltaTime' = frameAge]_vars
  /\ [][(pc \in AfterDelta) => deltaTime' = deltaTime]_vars

\* the first dispatch is about to run: DeltaTime holds the time measured
\* since the loop was entered, not the value of the setup
C17_Witness ==
  /\ pc = "dispatch" /\ frame = 1 /\ deltaWrites = 1
  /\ deltaTime # DeltaTimeNew(Sixtieth)

\* t - r is less than one millisecond: 1000 t < 1000 r + 1
WithinMilli(t, r) ==
  LessLimbs(MulSmall(Scaled(t, MaxQ(t, r)), MillisPerSecond),
            AddLimbs(MulSmall(Scaled(r, MaxQ(t, r)), MillisPerSecond),
                     ShiftLeft(<<1>>, MaxQ(t, r))))

====
